---------------------------- MODULE Spec2Model ----------------------------
(***************************************************************************)
(* Correlated-equilibrium toolkit: the Game data model (game.py), the      *)
(* equilibrium verifier and the welfare function (tester.py) and the       *)
(* swap-regret solver (sr.py).                                             *)
(*                                                                         *)
(* Real numbers are exact rationals [num, den] in lowest terms; players    *)
(* and actions are 0-based as in the source, sequences are 1-based, so     *)
(* player i's component of a profile a is a[i + 1].                        *)
(***************************************************************************)
EXTENDS Integers, Sequences, FiniteSets, TLC

VARIABLES
    game,          \* the Game object: num_players, num_actions, game_type, payoff_matrices
    distribution,  \* the dict handed to the verifier: joint action profile -> probability
    raised,        \* the exception the last call ended with ("none" when it returned)
    returned,      \* the value the last call returned
    last_call,     \* the last call made, with its arguments
    calls,         \* the verifier calls made so far, each with its outcome
    solver,        \* the SwapRegretSolver object: T, learning_rate, epsilon, players
    pc,            \* where solve() stands: "sample", "count", "update", "normalize",
                   \* "returned", "raised" ("idle" outside solve())
    round,         \* rounds of solve() completed
    cursor,        \* the player whose update_distributions comes next in the round
    action_profile,          \* the round's profile, as far as it has been sampled
    action_counts,           \* solve()'s dict: profile -> visits
    empirical_distribution   \* solve()'s dict: profile -> count / T

solveVars == <<solver, pc, round, cursor, action_profile, action_counts,
               empirical_distribution>>
vars == <<game, distribution, raised, returned, last_call, calls, solveVars>>

(***************************************************************************)
(* Exact rational arithmetic.                                              *)
(***************************************************************************)
Abs(x) == IF x < 0 THEN -x ELSE x

RECURSIVE Gcd(_, _)
Gcd(a, b) == IF b = 0 THEN a ELSE Gcd(b, a % b)

Rat(n, d) ==
    LET g == Gcd(Abs(n), Abs(d))
        s == IF d < 0 THEN -1 ELSE 1
    IN  [num |-> s * (n \div g), den |-> s * (d \div g)]

RInt(n) == [num |-> n, den |-> 1]
RZero == RInt(0)
ROne == RInt(1)

RAdd(a, b) ==
    LET g == Gcd(a.den, b.den)
    IN  Rat(a.num * (b.den \div g) + b.num * (a.den \div g), (a.den \div g) * b.den)

RNeg(a) == [num |-> -a.num, den |-> a.den]
RSub(a, b) == RAdd(a, RNeg(b))

RMul(a, b) ==
    LET g1 == Gcd(Abs(a.num), b.den)
        g2 == Gcd(Abs(b.num), a.den)
    IN  Rat((a.num \div g1) * (b.num \div g2), (a.den \div g2) * (b.den \div g1))

\* a / b for b # 0
RDiv(a, b) == RMul(a, Rat(b.den, b.num))

RAbs(a) == [num |-> Abs(a.num), den |-> a.den]

\* a < b, by continued-fraction descent so that no cross product is formed
RECURSIVE RLess(_, _)
RLess(a, b) ==
    LET qa == a.num \div a.den
        qb == b.num \div b.den
        ra == a.num % a.den
        rb == b.num % b.den
    IN  IF qa # qb THEN qa < qb
        ELSE IF rb = 0 THEN FALSE
        ELSE IF ra = 0 THEN TRUE
        ELSE RLess([num |-> b.den, den |-> rb], [num |-> a.den, den |-> ra])

RLeq(a, b) == ~RLess(b, a)

(***************************************************************************)
(* numpy arrays: a shape and one entry per index tuple.                    *)
(***************************************************************************)
RECURSIVE Prod(_)
Prod(s) == IF s = <<>> THEN 1 ELSE Head(s) * Prod(Tail(s))

RECURSIVE SumSeq(_)
SumSeq(s) == IF s = <<>> THEN 0 ELSE Head(s) + SumSeq(Tail(s))

SubSeqFrom(s, i) == [k \in 1..(Len(s) - i + 1) |-> s[k + i - 1]]

\* itertools.product(*[range(n) for n in shape]): the k-th tuple (k from 0),
\* the last component varying fastest
NthProfile(shape, k) ==
    [i \in 1..Len(shape) |-> (k \div Prod(SubSeqFrom(shape, i + 1))) % shape[i]]

ProductList(shape) == [k \in 1..Prod(shape) |-> NthProfile(shape, k - 1)]

Indices(shape) == {NthProfile(shape, k) : k \in 0..(Prod(shape) - 1)}

Range(s) == {s[i] : i \in DOMAIN s}

\* array[idx] for a tuple idx of as many components as the array has axes:
\* a component in [-n, n) is taken modulo n, any other raises IndexError
InBounds(shape, idx) ==
    /\ Len(idx) = Len(shape)
    /\ \A i \in 1..Len(shape) : idx[i] >= -shape[i] /\ idx[i] < shape[i]

Wrap(shape, idx) ==
    [i \in 1..Len(shape) |-> IF idx[i] < 0 THEN idx[i] + shape[i] ELSE idx[i]]

ArrayGet(array, idx) == array.data[Wrap(array.shape, idx)]

(***************************************************************************)
(* game.py: class Game                                                     *)
(***************************************************************************)
RANDOM == 0
CHICKEN == 1
CONGESTION == 2
CUSTOM == 3

\* an optional argument: Python's None, or a list of arrays
None == [is_none |-> TRUE, list |-> <<>>]
Some(list) == [is_none |-> FALSE, list |-> list]

NoGame == [num_players |-> 0, num_actions |-> <<>>, game_type |-> -1,
           payoff_matrices |-> <<>>]

Ok(v) == [raised |-> "none", value |-> v]
Raise(e) == [raised |-> e, value |-> <<>>]

\* np.random.uniform(-10, 10, size=joint_action_space), once per player: the
\* draws are the argument rnd, one array of that shape per player
generate_random_payoff_matrices(num_players, num_actions, rnd) ==
    Ok([p \in 1..num_players |-> rnd[p]])

generate_chicken_payoff_matrices(num_players, num_actions) ==
    IF num_players # 2 THEN Raise("ValueError")
    ELSE IF num_actions[1] # num_actions[2] THEN Raise("ValueError")
    ELSE IF num_actions[1] < 2 \/ num_actions[2] < 2 THEN Raise("ValueError")
    ELSE Ok(<< [shape |-> <<2, 2>>,
                data |-> (<<0, 0>> :> 0 @@ <<0, 1>> :> -1 @@
                          <<1, 0>> :> 1 @@ <<1, 1>> :> -10)],
               [shape |-> <<2, 2>>,
                data |-> (<<0, 0>> :> 0 @@ <<0, 1>> :> 1 @@
                          <<1, 0>> :> -1 @@ <<1, 1>> :> -10)] >>)

generate_congestion_payoff_matrices(num_players, num_actions) ==
    Ok([p \in 1..num_players |->
          [shape |-> num_actions,
           data |-> [a \in Indices(num_actions) |-> -SumSeq(a)]]])

generate_custom_payoff_matrices(num_actions, payoff_matrices) ==
    IF \E i \in 1..Len(payoff_matrices) : payoff_matrices[i].shape # num_actions
    THEN Raise("ValueError")
    ELSE Ok(payoff_matrices)

\* Game.__init__
GameNew(num_players, num_actions, game_type, payoff_matrices, rnd) ==
    LET made ==
          IF game_type = RANDOM
          THEN generate_random_payoff_matrices(num_players, num_actions, rnd)
          ELSE IF game_type = CHICKEN
          THEN generate_chicken_payoff_matrices(num_players, num_actions)
          ELSE IF game_type = CONGESTION
          THEN generate_congestion_payoff_matrices(num_players, num_actions)
          ELSE IF game_type = CUSTOM /\ ~payoff_matrices.is_none
          THEN generate_custom_payoff_matrices(num_actions, payoff_matrices.list)
          ELSE Raise("ValueError")
    IN  IF made.raised # "none" THEN Raise(made.raised)
        ELSE Ok([num_players |-> num_players, num_actions |-> num_actions,
                 game_type |-> game_type, payoff_matrices |-> made.value])

\* self.payoff_matrices[player][actions], for one player
PayoffAt(g, player, actions) ==
    IF player + 1 > Len(g.payoff_matrices) THEN Raise("IndexError")
    ELSE IF ~InBounds(g.payoff_matrices[player + 1].shape, actions)
    THEN Raise("IndexError")
    ELSE Ok(ArrayGet(g.payoff_matrices[player + 1], actions))

get_payoff(g, actions) ==
    IF \E player \in 0..(g.num_players - 1) : PayoffAt(g, player, actions).raised # "none"
    THEN Raise("IndexError")
    ELSE Ok([p \in 1..g.num_players |-> PayoffAt(g, p - 1, actions).value])

get_payoff_matrix(g, player) == g.payoff_matrices[player + 1]

get_action_profiles(g) == ProductList(g.num_actions)

(***************************************************************************)
(* tester.py: collect_violations and social_welfare                        *)
(***************************************************************************)
\* np.isclose's default relative tolerance, and the atol and the epsilon
\* default the verifier passes
RTOL == Rat(1, 100000)
ATOL == Rat(1, 1000000)
DefaultEpsilon == Rat(1, 100)

\* sum(distribution.values()), the values taken in the dict's order
RECURSIVE SumValues(_, _)
SumValues(d, keys) ==
    IF keys = {} THEN RZero
    ELSE LET k == CHOOSE x \in keys : TRUE
         IN  RAdd(d[k], SumValues(d, keys \ {k}))

\* np.isclose(a, b, atol=atol): |a - b| <= atol + rtol * |b|
isclose(a, b, atol) == RLeq(RAbs(RSub(a, b)), RAdd(atol, RMul(RTOL, RAbs(b))))

SumCheckFails(d) == ~isclose(SumValues(d, DOMAIN d), ROne, ATOL)

\* the negativity check left out
NegativeCheckSkipped(d) == FALSE

NegativeCheckFails(d) == \E k \in DOMAIN d : RLess(d[k], RZero)

\* action_profile[:player] + (alt_action,) + action_profile[player + 1:]
Replace(profile, player, alt_action) ==
    [i \in 1..Len(profile) |->
        IF i = player + 1 THEN alt_action ELSE profile[i]]

\* distribution[key] * game.payoff_matrices[player][idx]: the dict is read
\* first, then the list of arrays, then the array
Term(g, d, player, key, idx) ==
    IF key \notin DOMAIN d THEN Raise("KeyError")
    ELSE LET pay == PayoffAt(g, player, idx)
         IN  IF pay.raised # "none" THEN pay
             ELSE Ok(RMul(d[key], RInt(pay.value)))

\* sum(...) of a generator: the terms are added in order from 0, and the
\* first term that raises ends the sum
RECURSIVE SumTerms(_, _, _)
SumTerms(terms, i, acc) ==
    IF i > Len(terms) THEN Ok(acc)
    ELSE IF terms[i].raised # "none" THEN terms[i]
    ELSE SumTerms(terms, i + 1, RAdd(acc, terms[i].value))

Selected(action_profiles, player, current_action) ==
    SelectSeq(action_profiles, LAMBDA ap : ap[player + 1] = current_action)

Lhs(g, d, action_profiles, player, current_action) ==
    LET sel == Selected(action_profiles, player, current_action)
    IN  SumTerms([i \in 1..Len(sel) |-> Term(g, d, player, sel[i], sel[i])], 1, RZero)

Rhs(g, d, action_profiles, player, current_action, alt_action) ==
    LET sel == Selected(action_profiles, player, current_action)
    IN  SumTerms([i \in 1..Len(sel) |->
                    Term(g, d, player, sel[i], Replace(sel[i], player, alt_action))],
                 1, RZero)

\* the first player's action count, for every player
AltRangeFirst(g, player) == g.num_actions[1]

\* range(game.num_actions[player]) for alt_action
AltRange(g, player) == g.num_actions[player + 1]

\* the (current_action, alt_action) pairs of one player, in loop order
PlayerPairs(g, player) ==
    LET n == g.num_actions[player + 1]
        m == AltRange(g, player)
        all == [k \in 1..(n * m) |-> <<player, (k - 1) \div m, (k - 1) % m>>]
    IN  SelectSeq(all, LAMBDA t : t[2] # t[3])

\* the (player, current_action, alt_action) triples in the order of the loops
RECURSIVE Triples(_, _)
Triples(g, player) ==
    IF player >= g.num_players THEN <<>>
    ELSE PlayerPairs(g, player) \o Triples(g, player + 1)

\* the comparison without the epsilon
ViolatesAnyGain(lhs, rhs, epsilon) == RLess(lhs, rhs)

\* lhs < rhs - epsilon
Violates(lhs, rhs, epsilon) == RLess(lhs, RSub(rhs, epsilon))

\* the body of the loops from triple i on
RECURSIVE CheckFrom(_, _, _, _, _, _, _)
CheckFrom(g, d, epsilon, action_profiles, triples, i, violations) ==
    IF i > Len(triples) THEN Ok(violations)
    ELSE LET t == triples[i]
             lhs == Lhs(g, d, action_profiles, t[1], t[2])
             rhs == Rhs(g, d, action_profiles, t[1], t[2], t[3])
         IN  IF lhs.raised # "none" THEN Raise(lhs.raised)
             ELSE IF rhs.raised # "none" THEN Raise(rhs.raised)
             ELSE CheckFrom(g, d, epsilon, action_profiles, triples, i + 1,
                    IF Violates(lhs.value, rhs.value, epsilon)
                    THEN Append(violations,
                           [player |-> t[1], current_action |-> t[2],
                            alt_action |-> t[3],
                            magnitude |-> RSub(rhs.value, lhs.value)])
                    ELSE violations)

SumMessage == [message |-> "The probabilities do not sum to 1."]
NegativeMessage == [message |-> "The distribution contains negative probabilities."]

\* the list of the call before, kept
StaleViolations ==
    IF last_call.op = "collect_violations" /\ raised = "none" THEN returned ELSE <<>>

\* violations = []
InitialViolations == <<>>

collect_violations(g, d, epsilon) ==
    LET violations == InitialViolations
        action_profiles == get_action_profiles(g)
    IN  IF SumCheckFails(d) THEN Ok(Append(violations, SumMessage))
        ELSE IF NegativeCheckFails(d) THEN Ok(Append(violations, NegativeMessage))
        ELSE CheckFrom(g, d, epsilon, action_profiles, Triples(g, 0), 1, violations)

\* sum(game.payoff_matrices[player][action_profile] for player in range(...))
RECURSIVE PayoffSum(_, _, _, _)
PayoffSum(g, profile, player, acc) ==
    IF player >= g.num_players THEN Ok(acc)
    ELSE LET pay == PayoffAt(g, player, profile)
         IN  IF pay.raised # "none" THEN pay
             ELSE PayoffSum(g, profile, player + 1, acc + pay.value)

\* every entry counted
CountsAll(prob) == TRUE

Counts(prob) == RLess(RZero, prob)

\* the loop over distribution.items()
RECURSIVE WelfareFrom(_, _, _, _)
WelfareFrom(g, d, keys, welfare) ==
    IF keys = {} THEN Ok(welfare)
    ELSE LET k == CHOOSE x \in keys : TRUE
         IN  IF Counts(d[k])
             THEN LET s == PayoffSum(g, k, 0, 0)
                  IN  IF s.raised # "none" THEN s
                      ELSE WelfareFrom(g, d, keys \ {k},
                                       RAdd(welfare, RMul(d[k], RInt(s.value))))
             ELSE WelfareFrom(g, d, keys \ {k}, welfare)

social_welfare(d, g) == WelfareFrom(g, d, DOMAIN d, RZero)

(***************************************************************************)
(* sr.py: SwapRegretPlayer and SwapRegretSolver                            *)
(***************************************************************************)
\* np.max / np.min of an array
ArrayMax(array) ==
    CHOOSE v \in Range(array.data) : \A w \in Range(array.data) : w <= v
ArrayMin(array) ==
    CHOOSE v \in Range(array.data) : \A w \in Range(array.data) : v <= w

\* 1 - normalized_matrix
LossMatrix(payoff_matrix) ==
    LET max_value == ArrayMax(payoff_matrix)
        min_value == ArrayMin(payoff_matrix)
        normalized_matrix ==
          IF max_value = min_value
          THEN [a \in DOMAIN payoff_matrix.data |-> RZero]
          ELSE [a \in DOMAIN payoff_matrix.data |->
                  Rat(payoff_matrix.data[a] - min_value, max_value - min_value)]
    IN  [shape |-> payoff_matrix.shape,
         data |-> [a \in DOMAIN payoff_matrix.data |-> RSub(ROne, normalized_matrix[a])]]

\* SwapRegretPlayer.__init__
PlayerNew(payoff_matrix, num_actions, player_index, eta) ==
    [num_actions |-> num_actions,
     eta |-> eta,
     player_index |-> player_index,
     loss_matrix |-> LossMatrix(payoff_matrix),
     weights |-> [j \in 1..num_actions |-> [k \in 1..num_actions |-> ROne]],
     p |-> [k \in 1..num_actions |-> Rat(1, num_actions)]]

\* a draw that leaves the strategy aside
sample_any(player) == 0..(player.num_actions - 1)

\* the actions np.random.choice(self.num_actions, p=self.p) can return
sample_action(player) ==
    {a \in 0..(player.num_actions - 1) : RLess(RZero, player.p[a + 1])}

\* the result of a division by zero
NaN == [num |-> 0, den |-> 0]

RECURSIVE RSumSeq(_)
RSumSeq(s) == IF s = <<>> THEN RZero ELSE RAdd(Head(s), RSumSeq(Tail(s)))

RMax0(a) == IF RLess(a, RZero) THEN RZero ELSE a

\* the eigenvector of Q in place of that of Q.T: the same in every entry
stationary_untransposed(Q) == [k \in 1..Len(Q) |-> Rat(1, Len(Q))]

\* the stationary distribution eig finds for a row-stochastic Q of one or two
\* states: of the identity, the first unit vector
stationary_distribution(Q) ==
    IF Len(Q) = 1 THEN <<ROne>>
    ELSE LET out == RAdd(Q[1][2], Q[2][1])
         IN  IF out = RZero THEN <<ROne, RZero>>
             ELSE <<RDiv(Q[2][1], out), RDiv(Q[1][2], out)>>

\* the update with the losses scaled by p of the column
SteppedByColumn(player, losses) ==
    [j \in 1..player.num_actions |->
       [k \in 1..player.num_actions |->
          RMax0(RSub(player.weights[j][k],
                     RMul(player.eta, RMul(losses[k], player.p[k]))))]]

\* self.weights[j] -= self.eta * scaled_losses, then the clamp, for all j
Stepped(player, losses) ==
    [j \in 1..player.num_actions |->
       [k \in 1..player.num_actions |->
          RMax0(RSub(player.weights[j][k],
                     RMul(player.eta, RMul(losses[k], player.p[j]))))]]

\* self.weights / self.weights.sum(axis=1, keepdims=True)
Normalized(weights) ==
    [j \in 1..Len(weights) |->
       LET total == RSumSeq(weights[j])
       IN  [k \in 1..Len(weights[j]) |->
              IF total = RZero THEN NaN ELSE RDiv(weights[j][k], total)]]

HasNaN(weights) ==
    \E j \in 1..Len(weights) : \E k \in 1..Len(weights[j]) : weights[j][k] = NaN

\* SwapRegretPlayer.update_distributions: the player after the call, and the
\* exception the call ended with
update_distributions(player, profile) ==
    LET n == player.num_actions
        idx == [k \in 1..n |-> Replace(profile, player.player_index, k - 1)]
    IN  IF \E k \in 1..n : ~InBounds(player.loss_matrix.shape, idx[k])
        THEN [raised |-> "IndexError", value |-> player]
        ELSE LET losses == [k \in 1..n |-> ArrayGet(player.loss_matrix, idx[k])]
                 weights == Normalized(Stepped(player, losses))
             IN  IF HasNaN(weights)
                 THEN [raised |-> "LinAlgError",
                       value |-> [player EXCEPT !.weights = weights]]
                 ELSE [raised |-> "none",
                       value |-> [player EXCEPT !.weights = weights,
                                                !.p = stationary_distribution(weights)]]

\* SwapRegretSolver.__init__ with T and learning_rate given
SolverNew(g, T, learning_rate, epsilon) ==
    [T |-> T,
     learning_rate |-> learning_rate,
     epsilon |-> epsilon,
     num_players |-> g.num_players,
     num_actions |-> g.num_actions,
     players |-> [i \in 1..g.num_players |->
                    PlayerNew(get_payoff_matrix(g, i - 1), g.num_actions[i], i - 1,
                              learning_rate)]]

NoSolver == [T |-> 0, learning_rate |-> RZero, epsilon |-> RZero, num_players |-> 0,
             num_actions |-> <<>>, players |-> <<>>]

NoSolve ==
    /\ solver = NoSolver
    /\ pc = "idle"
    /\ round = 0
    /\ cursor = 0
    /\ action_profile = <<>>
    /\ action_counts = <<>>
    /\ empirical_distribution = <<>>

(***************************************************************************)
(* Inputs of the Game operations.                                          *)
(***************************************************************************)
MaxPlayers == 2
MaxDim == 3

Shapes(n) == [1..n -> 1..MaxDim]

HotArray(shape, hot, lo, hi) ==
    [shape |-> shape, data |-> [a \in Indices(shape) |-> IF a = hot THEN hi ELSE lo]]

\* a bounded sample of what np.random.uniform(-10, 10) can draw
UniformDraws(num_players, shape) ==
    {[p \in 1..num_players |-> HotArray(shape, hot, lo, lo + p)] :
        hot \in Indices(shape), lo \in {-9, 0}}

LinearArray(shape, c) ==
    [shape |-> shape, data |-> [a \in Indices(shape) |-> c * a[1] - SumSeq(a)]]

\* lists a caller may pass as payoff_matrices: one array per player of the
\* joint shape, the same with one array of another shape, a list that is one
\* array short, and no list
CustomArgs(num_players, shape) ==
    { Some([p \in 1..num_players |-> LinearArray(shape, p)]),
      Some([p \in 1..num_players |->
              IF p = 1 THEN LinearArray(<<2>> \o shape, 1) ELSE LinearArray(shape, p)]),
      Some([p \in 1..(num_players - 1) |-> LinearArray(shape, p)]),
      None }

GameTypes == {RANDOM, CHICKEN, CONGESTION, CUSTOM, 4}

ActionInputs(n) == [1..n -> (-(MaxDim + 1))..MaxDim]

(***************************************************************************)
(* The Game operations as actions.                                         *)
(***************************************************************************)
InitGame ==
    /\ game = NoGame
    /\ raised = "none"
    /\ returned = <<>>
    /\ last_call = [op |-> "none"]
    /\ distribution = <<>>
    /\ calls = <<>>
    /\ NoSolve

\* game = Game(num_players, num_actions, game_type, payoff_matrices)
Construct ==
    /\ last_call.op = "none"
    /\ \E num_players \in 1..MaxPlayers :
       \E num_actions \in Shapes(num_players) :
       \E game_type \in GameTypes :
       \E payoff_matrices \in CustomArgs(num_players, num_actions) :
       \E rnd \in UniformDraws(num_players, num_actions) :
         LET r == GameNew(num_players, num_actions, game_type, payoff_matrices, rnd)
         IN  /\ game' = IF r.raised = "none" THEN r.value ELSE NoGame
             /\ raised' = r.raised
             /\ returned' = <<>>
             /\ last_call' = [op |-> "Game", num_players |-> num_players,
                              num_actions |-> num_actions, game_type |-> game_type]
             /\ UNCHANGED <<distribution, calls, solveVars>>

\* game.get_payoff(actions)
GetPayoff ==
    /\ game # NoGame
    /\ \E actions \in ActionInputs(Len(game.num_actions)) :
         LET r == get_payoff(game, actions)
         IN  /\ raised' = r.raised
             /\ returned' = r.value
             /\ last_call' = [op |-> "get_payoff", actions |-> actions]
             /\ UNCHANGED <<game, distribution, calls, solveVars>>

NextGame == Construct \/ GetPayoff

SpecGame == InitGame /\ [][NextGame]_vars

(***************************************************************************)
(* Inputs of the verifier: games the constructor accepts, and dicts a      *)
(* caller may pass as the distribution.                                    *)
(***************************************************************************)
MaxCalls == 2

\* the payoffs of congestion_test in unittests.py
TestArray0 ==
    [shape |-> <<2, 2>>,
     data |-> (<<0, 0>> :> -5 @@ <<0, 1>> :> -2 @@ <<1, 0>> :> -3 @@ <<1, 1>> :> -6)]
TestArray1 ==
    [shape |-> <<2, 2>>,
     data |-> (<<0, 0>> :> -5 @@ <<0, 1>> :> -3 @@ <<1, 0>> :> -2 @@ <<1, 1>> :> -6)]

SkewArray(shape, c) ==
    [shape |-> shape,
     data |-> [a \in Indices(shape) |->
                 (c + 1) * a[1] - 2 * a[Len(a)] + c * a[1] * a[Len(a)] - SumSeq(a)]]

VerifyGames ==
    LET made ==
          { GameNew(2, <<2, 2>>, CHICKEN, None, <<>>),
            GameNew(2, <<2, 2>>, CONGESTION, None, <<>>),
            GameNew(2, <<2, 2>>, CUSTOM, Some(<<TestArray0, TestArray1>>), <<>>),
            GameNew(2, <<2, 3>>, CUSTOM,
                    Some(<<SkewArray(<<2, 3>>, 1), SkewArray(<<2, 3>>, 2)>>), <<>>),
            GameNew(3, <<2, 1, 2>>, CONGESTION, None, <<>>),
            GameNew(3, <<2, 2, 2>>, CUSTOM,
                    Some([p \in 1..3 |-> SkewArray(<<2, 2, 2>>, p)]), <<>>),
            GameNew(1, <<2>>, CUSTOM, Some(<<LinearArray(<<2>>, 3)>>), <<>>) }
          \cup { GameNew(2, <<1, 2>>, RANDOM, None, rnd) :
                   rnd \in UniformDraws(2, <<1, 2>>) }
    IN  {r.value : r \in {m \in made : m.raised = "none"}}

Masses == {Rat(1, 1), Rat(1, 2), Rat(1, 4)}
Deltas == {Rat(1, 100000), Rat(2, 100000), Rat(-1, 100000), Rat(-1, 1000)}
Transfers == {Rat(1, 100000), Rat(1, 1000)}
Epsilons == {DefaultEpsilon, Rat(1, 10)}

BaseDist(S, a, b, m) ==
    [x \in S |-> RAdd(IF x = a THEN m ELSE RZero,
                      IF x = b THEN RSub(ROne, m) ELSE RZero)]

Perturbed(d, c, delta) ==
    [x \in DOMAIN d |-> IF x = c THEN RAdd(d[x], delta) ELSE d[x]]

\* the same dict without its entries of probability 0
Sparse(d) == [x \in {y \in DOMAIN d : d[y] # RZero} |-> d[x]]

\* the first entry lowered and the last raised by delta
Transferred(d, first, last, delta) ==
    [x \in DOMAIN d |-> IF x = first /\ x # last THEN RSub(d[x], delta)
                        ELSE IF x = last /\ x # first THEN RAdd(d[x], delta)
                        ELSE d[x]]

\* mass m on one profile and 1 - m on the next one of the list, and the
\* uniform distribution; each also with its first entry moved by a delta or
\* with mass moved from its first to its last entry, and each also without
\* its zero entries
Dists(g) ==
    LET list == get_action_profiles(g)
        S == Range(list)
        N == Len(list)
        bases == {BaseDist(S, list[i], list[(i % N) + 1], m) : i \in 1..N, m \in Masses}
                 \cup {[x \in S |-> Rat(1, N)]}
        pert == bases \cup
                {Perturbed(d, list[1], delta) : d \in bases, delta \in Deltas}
                \cup {Transferred(d, list[1], list[N], delta) :
                         d \in bases, delta \in Transfers}
    IN  pert \cup {Sparse(d) : d \in pert}

(***************************************************************************)
(* The verifier's operations as actions.                                   *)
(***************************************************************************)
InitVerify ==
    /\ game \in VerifyGames
    /\ distribution \in Dists(game)
    /\ raised = "none"
    /\ returned = <<>>
    /\ last_call = [op |-> "none"]
    /\ calls = <<>>
    /\ NoSolve

\* violations = collect_violations(game, distribution, epsilon)
CollectViolations ==
    /\ Len(calls) < MaxCalls
    /\ \E epsilon \in Epsilons :
         LET r == collect_violations(game, distribution, epsilon)
         IN  /\ raised' = r.raised
             /\ returned' = r.value
             /\ last_call' = [op |-> "collect_violations", epsilon |-> epsilon]
             /\ calls' = Append(calls, [op |-> "collect_violations", epsilon |-> epsilon,
                                        raised |-> r.raised, returned |-> r.value])
    /\ UNCHANGED <<game, distribution, solveVars>>

\* welfare = social_welfare(distribution, game)
SocialWelfare ==
    /\ Len(calls) < MaxCalls
    /\ LET r == social_welfare(distribution, game)
       IN  /\ raised' = r.raised
           /\ returned' = r.value
           /\ last_call' = [op |-> "social_welfare", epsilon |-> RZero]
           /\ calls' = Append(calls, [op |-> "social_welfare", epsilon |-> RZero,
                                      raised |-> r.raised, returned |-> r.value])
    /\ UNCHANGED <<game, distribution, solveVars>>

NextVerify == CollectViolations \/ SocialWelfare

SpecVerify == InitVerify /\ [][NextVerify]_vars

(***************************************************************************)
(* Properties of the Game.                                                 *)
(***************************************************************************)
WellFormed(g) ==
    /\ Len(g.payoff_matrices) = g.num_players
    /\ \A i \in 1..Len(g.payoff_matrices) : g.payoff_matrices[i].shape = g.num_actions

\* C6: every payoff array of a constructed Game has the shape
\* tuple(num_actions), whatever the kind of the game
C6_ShapeInvariant ==
    (game # NoGame)
    => \A i \in 1..Len(game.payoff_matrices) :
         game.payoff_matrices[i].shape = game.num_actions

\* C7: get_payoff raises IndexError exactly when a component of actions is
\* outside [0, num_actions[i]), and otherwise returns one payoff per player
C7_IndexError ==
    (last_call.op = "get_payoff" /\ WellFormed(game))
    => /\ (raised = "IndexError") <=>
            (\E i \in 1..Len(last_call.actions) :
               last_call.actions[i] < 0 \/ last_call.actions[i] >= game.num_actions[i])
       /\ (raised = "none") => (Len(returned) = game.num_players)

(***************************************************************************)
(* Properties of the verifier.                                             *)
(***************************************************************************)
RECURSIVE TotalOf(_, _)
TotalOf(f, S) ==
    IF S = {} THEN RZero
    ELSE LET x == CHOOSE y \in S : TRUE
         IN  RAdd(f[x], TotalOf(f, S \ {x}))

Profiles == Indices(game.num_actions)
Players == 0..(game.num_players - 1)
Actions(player) == 0..(game.num_actions[player + 1] - 1)
Payoff(player, a) == game.payoff_matrices[player + 1].data[a]

Dense == DOMAIN distribution = Profiles
SumOfDistribution == TotalOf(distribution, DOMAIN distribution)
IsViolation(v) == "player" \in DOMAIN v

\* the expected payoff of player when told current, and when it then plays alt
ExpectedAt(player, current, alt) ==
    LET sel == {a \in Profiles : a[player + 1] = current}
    IN  TotalOf([a \in sel |->
                   RMul(distribution[a], RInt(Payoff(player, Replace(a, player, alt))))],
                sel)

Deviations ==
    {t \in Players \X (0..(MaxDim - 1)) \X (0..(MaxDim - 1)) :
        t[2] \in Actions(t[1]) /\ t[3] \in Actions(t[1]) /\ t[2] # t[3]}

\* C2: for a distribution that passes the validation and has an entry for
\* every profile, the call returns one record per (player, current, alt),
\* current # alt, with lhs < rhs - epsilon, and no other; its magnitude is
\* rhs - lhs
C2_ViolationsExact ==
    (/\ last_call.op = "collect_violations"
     /\ Dense
     /\ ~SumCheckFails(distribution)
     /\ ~NegativeCheckFails(distribution))
    => /\ raised = "none"
       /\ Len(returned) = Cardinality(Range(returned))
       /\ Range(returned) =
            {[player |-> t[1], current_action |-> t[2], alt_action |-> t[3],
              magnitude |-> RSub(ExpectedAt(t[1], t[2], t[3]),
                                 ExpectedAt(t[1], t[2], t[2]))] :
               t \in {u \in Deviations :
                        RLess(ExpectedAt(u[1], u[2], u[2]),
                              RSub(ExpectedAt(u[1], u[2], u[3]), last_call.epsilon))}}

\* a call on a valid dense distribution that found some deviations profitable
\* and others not
C2_Witness ==
    /\ last_call.op = "collect_violations"
    /\ Dense
    /\ ~SumCheckFails(distribution)
    /\ ~NegativeCheckFails(distribution)
    /\ raised = "none"
    /\ Len(returned) >= 2
    /\ Len(returned) < Cardinality(Deviations)
    /\ game.num_players = 3

Densified == [a \in Profiles |-> IF a \in DOMAIN distribution THEN distribution[a] ELSE RZero]

\* C3: a distribution that leaves out profiles of probability 0 is accepted,
\* with the result of the dense distribution that holds 0 for them
C3_SparseAccepted ==
    (/\ last_call.op = "collect_violations"
     /\ DOMAIN distribution # Profiles
     /\ DOMAIN distribution \subseteq Profiles)
    => /\ raised = "none"
       /\ returned = collect_violations(game, Densified, last_call.epsilon).value

SumTolerance == RAdd(ATOL, RTOL)
NegativeTolerance == Rat(1, 10000)

SumOutsideTolerance == RLess(SumTolerance, RAbs(RSub(SumOfDistribution, ROne)))
NegativeBeyondTolerance ==
    \E a \in DOMAIN distribution : RLess(distribution[a], RNeg(NegativeTolerance))

\* C4: a distribution whose sum is off 1 by more than the tolerance, or with
\* an entry below minus the tolerance, gets the validation error alone: the
\* list returned holds that one message and no violation record
C4_ValidationFirst ==
    (/\ last_call.op = "collect_violations"
     /\ SumOutsideTolerance \/ NegativeBeyondTolerance)
    => /\ raised = "none"
       /\ Len(returned) = 1
       /\ returned[1] = IF SumOutsideTolerance THEN SumMessage ELSE NegativeMessage

\* a sparse distribution of sum 1 with an entry below -1e-4, rejected for it
C4_Witness ==
    /\ last_call.op = "collect_violations"
    /\ ~SumOutsideTolerance
    /\ NegativeBeyondTolerance
    /\ ~Dense
    /\ returned = <<NegativeMessage>>

\* C5: a distribution of sum 1 whose entries are all >= -1e-4 passes the
\* precondition checks: the call returns violation records only
C5_NegativeTolerance ==
    (/\ last_call.op = "collect_violations"
     /\ Dense
     /\ SumOfDistribution = ROne
     /\ ~NegativeBeyondTolerance)
    => /\ raised = "none"
       /\ \A i \in 1..Len(returned) : IsViolation(returned[i])

Perms(n) == {pi \in [1..n -> 1..n] : \A i, j \in 1..n : pi[i] = pi[j] => i = j}
Inverse(pi) == [j \in 1..Len(pi) |-> CHOOSE i \in 1..Len(pi) : pi[i] = j]

\* player i becomes player pi[i]
PermSeq(s, pi) == [j \in 1..Len(s) |-> s[Inverse(pi)[j]]]
UnpermSeq(s, pi) == [i \in 1..Len(s) |-> s[pi[i]]]
PermArray(array, pi) ==
    [shape |-> PermSeq(array.shape, pi),
     data |-> [a \in Indices(PermSeq(array.shape, pi)) |-> array.data[UnpermSeq(a, pi)]]]
PermGame(g, pi) ==
    [num_players |-> g.num_players,
     num_actions |-> PermSeq(g.num_actions, pi),
     game_type |-> g.game_type,
     payoff_matrices |-> [j \in 1..g.num_players |->
                            PermArray(g.payoff_matrices[Inverse(pi)[j]], pi)]]
PermDist(d, pi) ==
    [a \in {PermSeq(b, pi) : b \in DOMAIN d} |-> d[UnpermSeq(a, pi)]]
Relabel(v, pi) ==
    IF IsViolation(v) THEN [v EXCEPT !.player = pi[v.player + 1] - 1] ELSE v

\* C9: with the players relabelled by a permutation in the game and in the
\* distribution, the call ends the same way and returns the same records
\* with the player relabelled
C9_RelabelSymmetric ==
    (last_call.op = "collect_violations")
    => \A pi \in Perms(game.num_players) :
         LET r == collect_violations(PermGame(game, pi), PermDist(distribution, pi),
                                     last_call.epsilon)
         IN  /\ r.raised = raised
             /\ Range(r.value) = {Relabel(v, pi) : v \in Range(returned)}
             /\ Len(r.value) = Len(returned)

\* a three-player game whose call returned violations of two players
C9_Witness ==
    /\ last_call.op = "collect_violations"
    /\ game.num_players = 3
    /\ raised = "none"
    /\ \E i, j \in 1..Len(returned) :
         /\ IsViolation(returned[i])
         /\ IsViolation(returned[j])
         /\ returned[i].player # returned[j].player

\* C10: the welfare is the sum over the players of the expected payoff over
\* the entries of positive probability; other entries add nothing and no
\* profile outside the dict is read
C10_Welfare ==
    (last_call.op = "social_welfare")
    => /\ raised = "none"
       /\ LET pos == {a \in DOMAIN distribution : RLess(RZero, distribution[a])}
              perPlayer == [p \in Players |->
                              TotalOf([a \in pos |->
                                         RMul(distribution[a], RInt(Payoff(p, a)))], pos)]
          IN  returned = TotalOf(perPlayer, Players)

\* the welfare of a sparse distribution with a negative entry
C10_Witness ==
    /\ last_call.op = "social_welfare"
    /\ ~Dense
    /\ \E a \in DOMAIN distribution :
         RLess(distribution[a], RZero) /\ Payoff(0, a) # 0
    /\ returned # RZero

(***************************************************************************)
(* solve(), step by step.                                                  *)
(***************************************************************************)
MaxT == 3

OpponentArray(shape, axis) ==
    [shape |-> shape, data |-> [a \in Indices(shape) |-> a[axis]]]
ConstantArray(shape, c) ==
    [shape |-> shape, data |-> [a \in Indices(shape) |-> c]]

Made(r) == IF r.raised = "none" THEN {r.value} ELSE {}

\* the games solved and the learning rates given with each; the payoffs are
\* such that the weights of MaxT + 1 rounds stay within TLC's integers
SolveConfigs ==
    (Made(GameNew(2, <<2, 2>>, CUSTOM, Some(<<TestArray0, TestArray1>>), <<>>))
       \X {RInt(1), RInt(2)})
    \cup (Made(GameNew(2, <<2, 2>>, CONGESTION, None, <<>>)) \X {RInt(1), RInt(2)})
    \cup (Made(GameNew(3, <<2, 1, 2>>, CONGESTION, None, <<>>)) \X {RInt(1), RInt(2)})
    \cup (Made(GameNew(2, <<1, 2>>, CONGESTION, None, <<>>))
            \X {Rat(1, 2), RInt(1), RInt(2)})
    \cup (Made(GameNew(2, <<2, 2>>, CUSTOM,
                       Some(<<LinearArray(<<2, 2>>, 1), LinearArray(<<2, 2>>, 1)>>), <<>>))
            \X {Rat(1, 2), RInt(1), RInt(2)})
    \cup (Made(GameNew(2, <<2, 2>>, CUSTOM,
                       Some(<<OpponentArray(<<2, 2>>, 2), OpponentArray(<<2, 2>>, 1)>>),
                       <<>>))
            \X {Rat(1, 2), RInt(1), RInt(2)})
    \cup (Made(GameNew(2, <<2, 2>>, CUSTOM,
                       Some(<<ConstantArray(<<2, 2>>, 0), OpponentArray(<<2, 2>>, 1)>>),
                       <<>>))
            \X {Rat(1, 2), RInt(1), RInt(2)})

\* the loop with one round too few
MoreRoundsShort(done, T) == done + 1 < T

\* for _ in range(self.T): whether a round follows when done rounds are over
MoreRounds(done, T) == done < T

Init ==
    /\ \E config \in SolveConfigs : \E T \in 1..MaxT :
         /\ game = config[1]
         /\ solver = SolverNew(config[1], T, config[2], DefaultEpsilon)
    /\ pc = "sample"
    /\ round = 0
    /\ cursor = 0
    /\ action_profile = <<>>
    /\ action_counts = <<>>
    /\ empirical_distribution = <<>>
    /\ distribution = <<>>
    /\ raised = "none"
    /\ returned = <<>>
    /\ last_call = [op |-> "solve"]
    /\ calls = <<>>

\* the next player of self.players samples its action
Sample ==
    /\ pc = "sample"
    /\ \E a \in sample_action(solver.players[Len(action_profile) + 1]) :
         /\ action_profile' = Append(action_profile, a)
         /\ pc' = IF Len(action_profile) + 1 = Len(solver.players)
                  THEN "count" ELSE "sample"
    /\ UNCHANGED <<game, distribution, raised, returned, last_call, calls, solver, round,
                   cursor, action_counts, empirical_distribution>>

\* action_counts[action_profile] += 1, from 0 for a profile not seen before
Count ==
    /\ pc = "count"
    /\ action_counts' =
         [a \in DOMAIN action_counts \cup {action_profile} |->
            IF a = action_profile
            THEN (IF a \in DOMAIN action_counts THEN action_counts[a] ELSE 0) + 1
            ELSE action_counts[a]]
    /\ pc' = "update"
    /\ cursor' = 0
    /\ UNCHANGED <<game, distribution, raised, returned, last_call, calls, solver, round,
                   action_profile, empirical_distribution>>

\* learners of the same number of actions holding one weights array and one
\* strategy between them
PlayersSharing(players, i, updated) ==
    [h \in 1..Len(players) |->
       IF h = i THEN updated
       ELSE IF players[h].num_actions = updated.num_actions
       THEN [players[h] EXCEPT !.weights = updated.weights, !.p = updated.p]
       ELSE players[h]]

\* self.players after update_distributions of player i: self.weights and
\* self.p are arrays of that player alone
PlayersAfter(players, i, updated) == [players EXCEPT ![i] = updated]

\* player.update_distributions(action_profile) for the next player; after the
\* last player the round is over, and the loop goes on or ends
Update ==
    /\ pc = "update"
    /\ LET r == update_distributions(solver.players[cursor + 1], action_profile)
           last == cursor + 1 = Len(solver.players)
       IN  /\ solver' = [solver EXCEPT
                        !.players = PlayersAfter(solver.players, cursor + 1, r.value)]
           /\ raised' = r.raised
           /\ pc' = IF r.raised # "none" THEN "raised"
                    ELSE IF ~last THEN "update"
                    ELSE IF MoreRounds(round + 1, solver.T) THEN "sample" ELSE "normalize"
           /\ cursor' = IF r.raised = "none" /\ ~last THEN cursor + 1 ELSE cursor
           /\ round' = IF r.raised = "none" /\ last THEN round + 1 ELSE round
           /\ action_profile' = IF r.raised = "none" /\ last /\ MoreRounds(round + 1, solver.T)
                                THEN <<>> ELSE action_profile
    /\ UNCHANGED <<game, distribution, returned, last_call, calls, action_counts,
                   empirical_distribution>>

\* empirical_distribution[action_profile] = count / self.T for every item,
\* and the return
Normalize ==
    /\ pc = "normalize"
    /\ empirical_distribution' =
         [a \in DOMAIN action_counts |-> Rat(action_counts[a], solver.T)]
    /\ returned' = empirical_distribution'
    /\ pc' = "returned"
    /\ UNCHANGED <<game, distribution, raised, last_call, calls, solver, round, cursor,
                   action_profile, action_counts>>

Next == Sample \/ Count \/ Update \/ Normalize

Spec == Init /\ [][Next]_vars

(***************************************************************************)
(* Properties of solve().                                                  *)
(***************************************************************************)
RECURSIVE TotalCount(_, _)
TotalCount(counts, S) ==
    IF S = {} THEN 0
    ELSE LET x == CHOOSE y \in S : TRUE
         IN  counts[x] + TotalCount(counts, S \ {x})

\* C1: solve() leaves its loop after T rounds and not before; what it
\* returns comes from visit counts that sum to T, has no negative entry and
\* sums to 1
C1_RunsTRounds ==
    /\ round <= solver.T
    /\ (pc \in {"normalize", "returned"}) => (round = solver.T)
    /\ (pc = "returned")
       => /\ TotalCount(action_counts, DOMAIN action_counts) = solver.T
          /\ returned = empirical_distribution
          /\ \A a \in DOMAIN returned : RLeq(RZero, returned[a])
          /\ TotalOf(returned, DOMAIN returned) = ROne

\* solve() returned after three rounds, two of them on the same profile,
\* and some profile was never visited
C1_Witness ==
    /\ pc = "returned"
    /\ solver.T = 3
    /\ \E a \in DOMAIN returned : returned[a] = Rat(2, 3)
    /\ DOMAIN returned # Indices(game.num_actions)

(***************************************************************************)
(* SwapRegretSolver.__init__ with T and learning_rate optional.            *)
(***************************************************************************)
\* an argument left at its default None, and an argument given
NoArg == [is_none |-> TRUE, value |-> RZero]
Given(v) == [is_none |-> FALSE, value |-> v]

\* `if T:`, `if learning_rate:`: None and zero are false
Truthy(arg) == ~arg.is_none /\ arg.value # RZero

\* np.max(self.num_actions)
MaxActions(num_actions) ==
    CHOOSE v \in Range(num_actions) : \A w \in Range(num_actions) : w <= v

\* math.log(m) for the action counts met here, cut after seven decimals
log(m) ==
    CASE m = 1 -> RZero
      [] m = 2 -> Rat(6931471, 10000000)
      [] m = 3 -> Rat(10986122, 10000000)
      [] m = 4 -> Rat(13862943, 10000000)
      [] m = 5 -> Rat(16094379, 10000000)

\* int(x) of a float x >= 0: the fraction is dropped
int(x) == x.num \div x.den

\* math.ceil(x)
ceil(x) == -((-x.num) \div x.den)

\* the largest s in lo..hi with s * s <= q
RECURSIVE ISqrtIn(_, _, _)
ISqrtIn(q, lo, hi) ==
    IF lo = hi THEN lo
    ELSE LET mid == (lo + hi + 1) \div 2
         IN  IF mid * mid <= q THEN ISqrtIn(q, mid, hi) ELSE ISqrtIn(q, lo, mid - 1)

\* math.sqrt(x / T) for x = math.log(...) and an integer T > 0, cut after
\* four decimals
sqrt_over(x, T) ==
    LET q == (x.num * (100000000 \div x.den)) \div T
    IN  Rat(ISqrtIn(q, 0, 15000), 10000)

\* the T of line 118
DerivedT(num_actions, epsilon) ==
    LET m == MaxActions(num_actions)
    IN  int(RDiv(RMul(RInt(4 * (m * m)), log(m)), RMul(epsilon, epsilon)))

\* SwapRegretSolver.__init__: the solver built, or the exception raised
SolverInit(g, T, learning_rate, epsilon) ==
    LET rounds == IF Truthy(T) THEN T.value.num
                  ELSE DerivedT(g.num_actions, epsilon)
    IN  IF Truthy(learning_rate)
        THEN Ok(SolverNew(g, rounds, learning_rate.value, epsilon))
        ELSE IF rounds = 0 THEN Raise("ZeroDivisionError")
        ELSE Ok(SolverNew(g, rounds,
                          sqrt_over(log(MaxActions(g.num_actions)), rounds), epsilon))

\* the array handed to SwapRegretPlayer.__init__ shifted where it stands
ShiftedInPlace(payoff_matrix) ==
    [shape |-> payoff_matrix.shape,
     data |-> [a \in DOMAIN payoff_matrix.data |->
                 payoff_matrix.data[a] - ArrayMin(payoff_matrix)]]

\* the array handed to SwapRegretPlayer.__init__ as the constructor leaves
\* it: np.zeros_like, the subtraction and the division build new arrays
ArgumentAfterInit(payoff_matrix) == payoff_matrix

\* the game after SwapRegretSolver.__init__ handed game.get_payoff_matrix(player)
\* of every player to a SwapRegretPlayer
GameAfterInit(g) ==
    [g EXCEPT !.payoff_matrices =
       [i \in 1..Len(g.payoff_matrices) |->
          IF i <= g.num_players
          THEN ArgumentAfterInit(get_payoff_matrix(g, i - 1))
          ELSE g.payoff_matrices[i]]]

(***************************************************************************)
(* benchmark_solvers: a solver is built on a game, solve() runs, and the   *)
(* distribution it returns goes to social_welfare and collect_violations.  *)
(***************************************************************************)
ConfigGames == {c[1] : c \in SolveConfigs}

\* the games solvers are built on: those solved, and games of one and of
\* three actions on which a solver is built and not run
BenchGames ==
    ConfigGames
    \cup Made(GameNew(2, <<3, 2>>, CONGESTION, None, <<>>))
    \cup Made(GameNew(2, <<1, 1>>, CONGESTION, None, <<>>))

LearningRates(g) ==
    IF g \in ConfigGames THEN {c[2] : c \in {d \in SolveConfigs : d[1] = g}}
    ELSE {ROne}

BenchEpsilons == {Rat(1, 100), Rat(1, 10), ROne}

\* solve() is followed through for the solvers of SolveConfigs built with at
\* most MaxT rounds
Solved(g, T, learning_rate) ==
    /\ ~T.is_none
    /\ ~learning_rate.is_none
    /\ <<g, learning_rate.value>> \in SolveConfigs
    /\ T.value.num <= MaxT

InitBench ==
    /\ game \in BenchGames
    /\ distribution = <<>>
    /\ raised = "none"
    /\ returned = <<>>
    /\ last_call = [op |-> "none"]
    /\ calls = <<>>
    /\ solver = NoSolver
    /\ pc = "new"
    /\ round = 0
    /\ cursor = 0
    /\ action_profile = <<>>
    /\ action_counts = <<>>
    /\ empirical_distribution = <<>>

\* solver = SwapRegretSolver(game, T, learning_rate, epsilon)
NewSolver ==
    /\ pc = "new"
    /\ \E T \in {NoArg} \cup {Given(RInt(n)) : n \in 1..MaxT} :
       \E learning_rate \in {NoArg} \cup {Given(l) : l \in LearningRates(game)} :
       \E epsilon \in BenchEpsilons :
         LET r == SolverInit(game, T, learning_rate, epsilon)
         IN  /\ solver' = IF r.raised = "none" THEN r.value ELSE NoSolver
             /\ game' = IF r.raised = "none" THEN GameAfterInit(game) ELSE game
             /\ raised' = r.raised
             /\ last_call' = [op |-> "SwapRegretSolver", T |-> T,
                              learning_rate |-> learning_rate, epsilon |-> epsilon]
             /\ pc' = IF r.raised # "none" THEN "raised"
                      ELSE IF Solved(game, T, learning_rate) THEN "sample"
                      ELSE "constructed"
    /\ UNCHANGED <<distribution, returned, calls, round, cursor, action_profile,
                   action_counts, empirical_distribution>>

\* welfare = welfare_func(distribution, game) on what solve() returned
BenchWelfare ==
    /\ pc = "returned"
    /\ LET r == social_welfare(empirical_distribution, game)
       IN  /\ distribution' = empirical_distribution
           /\ raised' = r.raised
           /\ returned' = r.value
           /\ pc' = IF r.raised = "none" THEN "welfare" ELSE "raised"
    /\ last_call' = [op |-> "social_welfare"]
    /\ UNCHANGED <<game, calls, solver, round, cursor, action_profile, action_counts,
                   empirical_distribution>>

\* violations = collect_violations(game, distribution, epsilon=solver.epsilon)
BenchViolations ==
    /\ pc = "welfare"
    /\ LET r == collect_violations(game, distribution, solver.epsilon)
       IN  /\ raised' = r.raised
           /\ returned' = r.value
           /\ pc' = IF r.raised = "none" THEN "done" ELSE "raised"
    /\ last_call' = [op |-> "collect_violations"]
    /\ UNCHANGED <<game, distribution, calls, solver, round, cursor, action_profile,
                   action_counts, empirical_distribution>>

NextBench ==
    NewSolver \/ Sample \/ Count \/ Update \/ Normalize \/ BenchWelfare \/ BenchViolations

SpecBench == InitBench /\ [][NextBench]_vars

(***************************************************************************)
(* Properties of the construction of the solver.                           *)
(***************************************************************************)
\* C11: a solver built without T has T = ceil(4 * maxActions^2 *
\* ln(maxActions) / epsilon^2), one built without learning_rate has
\* learning_rate = sqrt(ln(maxActions) / T), and a T or learning_rate that
\* was given is the solver's
C11_Configuration ==
    (last_call.op = "SwapRegretSolver" /\ pc \in {"constructed", "sample"})
    => LET m == MaxActions(game.num_actions)
           bound == RDiv(RMul(RInt(4 * (m * m)), log(m)),
                         RMul(last_call.epsilon, last_call.epsilon))
       IN  /\ solver.T = IF last_call.T.is_none THEN ceil(bound)
                         ELSE last_call.T.value.num
           /\ solver.learning_rate =
                IF last_call.learning_rate.is_none
                THEN sqrt_over(log(m), solver.T)
                ELSE last_call.learning_rate.value

\* C12: no step of the construction of a solver, of solve(), of
\* social_welfare or of collect_violations changes the game: num_players,
\* num_actions and every entry of payoff_matrices stay as they were
C12_GameReadOnly ==
    [][game' = game]_vars

\* the whole of benchmark_solvers ran on a game whose payoffs are neither
\* constant nor at least zero, in more than one round
C12_Witness ==
    /\ pc = "done"
    /\ round >= 2
    /\ \E i \in 1..game.num_players :
         /\ ArrayMin(game.payoff_matrices[i]) < 0
         /\ ArrayMin(game.payoff_matrices[i]) # ArrayMax(game.payoff_matrices[i])

(***************************************************************************)
(* Properties of the rounds of solve().                                    *)
(***************************************************************************)
\* the learners other than i are the same in both lists
SameButFor(players, after, i) ==
    /\ Len(after) = Len(players)
    /\ \A h \in 1..Len(players) : h # i => after[h] = players[h]

\* C13: in a round every learner samples from its strategy while no learner
\* has been updated since the round before, then the visit count of the
\* profile goes up by exactly 1, and only then the learners are updated, one
\* after the other in the order of the list, each once and each with the
\* round's profile; the round is over only when the last learner was updated
C13_RoundOrder ==
    [][ LET n == Len(solver.players)
            counted == TotalCount(action_counts, DOMAIN action_counts)
        IN  /\ (pc = "sample")
               => /\ solver' = solver
                  /\ action_counts' = action_counts
                  /\ counted = round
                  /\ Len(action_profile) < n
                  /\ \E a \in 0..(solver.players[Len(action_profile) + 1].num_actions - 1) :
                       /\ RLess(RZero, solver.players[Len(action_profile) + 1].p[a + 1])
                       /\ action_profile' = Append(action_profile, a)
                  /\ pc' = IF Len(action_profile') = n THEN "count" ELSE "sample"
            /\ (pc = "count")
               => /\ solver' = solver
                  /\ action_profile' = action_profile
                  /\ Len(action_profile) = n
                  /\ counted = round
                  /\ DOMAIN action_counts' = DOMAIN action_counts \cup {action_profile}
                  /\ \A a \in DOMAIN action_counts :
                       a # action_profile => action_counts'[a] = action_counts[a]
                  /\ action_counts'[action_profile] =
                       1 + (IF action_profile \in DOMAIN action_counts
                            THEN action_counts[action_profile] ELSE 0)
                  /\ pc' = "update" /\ cursor' = 0
            /\ (pc = "update")
               => /\ Len(action_profile) = n
                  /\ counted = round + 1
                  /\ action_counts' = action_counts
                  /\ cursor < n
                  /\ SameButFor(solver.players, solver'.players, cursor + 1)
                  /\ solver'.players[cursor + 1] =
                       update_distributions(solver.players[cursor + 1], action_profile).value
                  /\ (raised' = "none" /\ cursor + 1 < n)
                     => (pc' = "update" /\ cursor' = cursor + 1 /\ round' = round
                         /\ action_profile' = action_profile)
                  /\ (raised' = "none" /\ cursor + 1 = n)
                     => (round' = round + 1 /\ pc' \in {"sample", "normalize"})
                  /\ (raised' # "none") => (round' = round /\ pc' = "raised")
            /\ (solver' # solver) => (pc = "update")
            /\ (round' # round) => (pc = "update" /\ cursor + 1 = n)
      ]_vars

\* the second learner is about to be updated in the second round, after the
\* first, holding a strategy that gives one of its actions probability zero
C13_Witness ==
    /\ pc = "update"
    /\ round = 1
    /\ cursor = 1
    /\ \E i \in 1..Len(solver.players) : \E a \in 1..solver.players[i].num_actions :
         solver.players[i].p[a] = RZero

(***************************************************************************)
(* Properties of update_distributions.                                     *)
(***************************************************************************)
\* the learner's loss at the profile with its own component replaced by k
LossAt(learner, profile, k) ==
    learner.loss_matrix.data[[h \in 1..Len(profile) |->
                                IF h = learner.player_index + 1 THEN k ELSE profile[h]]]

\* max(0, weights[j][k] - eta * p[j] * losses[k])
Clamped(learner, profile, j, k) ==
    LET moved == RSub(learner.weights[j + 1][k + 1],
                      RMul(RMul(learner.eta, learner.p[j + 1]),
                           LossAt(learner, profile, k)))
    IN  IF RLess(moved, RZero) THEN RZero ELSE moved

RECURSIVE RowSum(_, _, _, _)
RowSum(learner, profile, j, k) ==
    IF k < 0 THEN RZero
    ELSE RAdd(RowSum(learner, profile, j, k - 1), Clamped(learner, profile, j, k))

\* a / b as floats divide: undefined for b = 0
Over(a, b) == IF b = RZero THEN NaN ELSE RDiv(a, b)

\* C14: an update of a learner with strategy p sets weights[j][k], for every
\* row j and column k, to max(0, old weights[j][k] - eta * p[j] * losses[k])
\* divided by the sum of these over row j, losses[k] being the learner's loss
\* at the round's profile with its own component replaced by k and p the
\* strategy from before the update
C14_UpdateFormula ==
    [][ (pc = "update")
        => LET old == solver.players[cursor + 1]
               new == solver'.players[cursor + 1]
               n == old.num_actions
           IN  \A j \in 0..(n - 1) : \A k \in 0..(n - 1) :
                 new.weights[j + 1][k + 1] =
                   Over(Clamped(old, action_profile, j, k),
                        RowSum(old, action_profile, j, n - 1))
      ]_vars

\* a learner of two actions whose strategy is not uniform is about to be
\* updated with losses that differ between its actions, in a later round
C14_Witness ==
    /\ pc = "update"
    /\ round >= 1
    /\ LET old == solver.players[cursor + 1]
       IN  /\ old.num_actions = 2
           /\ old.p[1] # old.p[2]
           /\ RLess(RZero, old.p[1]) /\ RLess(RZero, old.p[2])
           /\ LossAt(old, action_profile, 0) # LossAt(old, action_profile, 1)
           /\ \E j \in 0..1 : \E k \in 0..1 :
                Clamped(old, action_profile, j, k) = RZero

\* C15: every entry of every learner's weights matrix is a number that is at
\* least zero, from the construction on and after every update_distributions
C15_WeightsNonNegative ==
    \A i \in 1..Len(solver.players) :
      \A j \in 1..solver.players[i].num_actions :
        \A k \in 1..solver.players[i].num_actions :
          /\ solver.players[i].weights[j][k] # NaN
          /\ RLeq(RZero, solver.players[i].weights[j][k])

\* C16: an update in which a row of weights sums to zero after the clamp
\* ends solve() with an error, and the division is not made: the learner is
\* left without an undefined entry in its weights
C16_ZeroRowFatal ==
    [][ (/\ pc = "update"
         /\ \E j \in 0..(solver.players[cursor + 1].num_actions - 1) :
              RowSum(solver.players[cursor + 1], action_profile, j,
                     solver.players[cursor + 1].num_actions - 1) = RZero)
        => /\ pc' = "raised"
           /\ raised' # "none"
           /\ ~HasNaN(solver'.players[cursor + 1].weights)
      ]_vars

\* C18: the learner of a player whose payoff is the same at every profile
\* holds a loss of zero at every profile
C18_ConstantPayoffZeroLoss ==
    \A i \in 1..Len(solver.players) :
      (ArrayMax(game.payoff_matrices[i]) = ArrayMin(game.payoff_matrices[i]))
      => \A a \in DOMAIN solver.players[i].loss_matrix.data :
           solver.players[i].loss_matrix.data[a] = RZero

\* update_distributions(profile) on the learners in the given order
RECURSIVE ApplyAll(_, _, _)
ApplyAll(players, order, profile) ==
    IF order = <<>> THEN players
    ELSE ApplyAll(PlayersAfter(players, Head(order),
                               update_distributions(players[Head(order)], profile).value),
                  Tail(order), profile)

\* C19: an update of one learner leaves the weights and the strategy of every
\* other learner as they were, and the updates of a round, made in any order
\* with the round's profile, leave all learners in the same state
C19_LearnersIndependent ==
    [][ (pc = "update")
        => /\ \A h \in 1..Len(solver.players) :
                h # cursor + 1
                => /\ solver'.players[h].weights = solver.players[h].weights
                   /\ solver'.players[h].p = solver.players[h].p
           /\ (cursor = 0)
              => \A order \in Perms(Len(solver.players)) :
                   ApplyAll(solver.players, order, action_profile)
                     = ApplyAll(solver.players, [h \in 1..Len(solver.players) |-> h],
                                action_profile)
      ]_vars

\* in a later round the last of three learners was just updated, two of the
\* learners have the same number of actions and their weights differ
C19_Witness ==
    /\ pc = "sample"
    /\ round >= 1
    /\ Len(solver.players) = 3
    /\ \E h, i \in 1..3 :
         /\ h # i
         /\ solver.players[h].num_actions = solver.players[i].num_actions
         /\ solver.players[h].weights # solver.players[i].weights

(***************************************************************************)
(* update_distributions on learners as earlier rounds can have left them.  *)
(***************************************************************************)
\* rows of a transition matrix of two actions
GridRows ==
    {<<ROne, RZero>>, <<Rat(3, 4), Rat(1, 4)>>, <<Rat(1, 2), Rat(1, 2)>>,
     <<Rat(1, 4), Rat(3, 4)>>, <<RZero, ROne>>}

\* the learner as built, and the learner with a transition matrix of the
\* grid and the strategy update_distributions computed from it
LearnerStates(player) ==
    {player}
    \cup (IF player.num_actions # 2 THEN {}
          ELSE {[player EXCEPT !.weights = <<r1, r2>>,
                               !.p = stationary_distribution(<<r1, r2>>)] :
                  r1 \in GridRows, r2 \in GridRows})

\* updates followed from each learner state
MaxUpdates == 1

LearnerConfigs ==
    {c \in SolveConfigs : c[1].num_actions = <<2, 2>> /\ c[2] \in {Rat(1, 2), ROne}}

InitLearner ==
    /\ \E config \in LearnerConfigs :
         LET built == SolverNew(config[1], 1, config[2], DefaultEpsilon)
         IN  /\ game = config[1]
             /\ \E first \in LearnerStates(built.players[1]) :
                  solver = [built EXCEPT !.players[1] = first]
    /\ pc = "learner"
    /\ round = 0
    /\ cursor = 0
    /\ action_profile = <<>>
    /\ action_counts = <<>>
    /\ empirical_distribution = <<>>
    /\ distribution = <<>>
    /\ raised = "none"
    /\ returned = <<>>
    /\ last_call = [op |-> "none"]
    /\ calls = <<>>

\* player.update_distributions(action_profile) of one learner
UpdateLearner ==
    /\ pc = "learner"
    /\ round < MaxUpdates
    /\ \E i \in 1..Len(solver.players) : \E profile \in Indices(game.num_actions) :
         LET r == update_distributions(solver.players[i], profile)
         IN  /\ solver' = [solver EXCEPT
                             !.players = PlayersAfter(solver.players, i, r.value)]
             /\ raised' = r.raised
             /\ pc' = IF r.raised = "none" THEN "learner" ELSE "raised"
             /\ cursor' = i - 1
             /\ action_profile' = profile
    /\ round' = round + 1
    /\ last_call' = [op |-> "update_distributions"]
    /\ UNCHANGED <<game, distribution, returned, calls, action_counts,
                   empirical_distribution>>

NextLearner == UpdateLearner

SpecLearner == InitLearner /\ [][NextLearner]_vars

\* the row-normalized weights
TransitionMatrix(weights) ==
    [j \in 1..Len(weights) |->
       [k \in 1..Len(weights) |-> RDiv(weights[j][k], RSumSeq(weights[j]))]]

RECURSIVE Flow(_, _, _, _)
Flow(p, Q, k, j) ==
    IF j = 0 THEN RZero ELSE RAdd(Flow(p, Q, k, j - 1), RMul(p[j], Q[j][k]))

=============================================================================
